---------------------------- MODULE Spec2Model ----------------------------
(***************************************************************************)
(* Polymarket copy-trading bot: the account monitor (per-source polling    *)
(* and change detection), the copy-trading orchestrator                    *)
(* (handleStatusUpdate) and the trade executor (executeBuy / executeSell   *)
(* with duplicate check, retry and persistence).                           *)
(*                                                                         *)
(* The program runs on one JavaScript event loop.  An action of this       *)
(* module is one run-to-suspension segment of a callback: it starts when   *)
(* an external event (timer, HTTP answer, database answer, order answer)   *)
(* is delivered and ends at the next await on such an event.  An await on  *)
(* an already settled promise (pc "entry") only yields to the microtask    *)
(* queue, which runs before any external event is delivered: while a       *)
(* handler is at "entry" no other action is enabled (see Quiet).           *)
(***************************************************************************)
EXTENDS Integers, Sequences, FiniteSets, TLC

VARIABLES
  \* ---- environment -------------------------------------------------------
  world,            \* [Sources -> [held Ids -> size level]]: what each source holds
  envSteps,         \* steps the environment took so far: a source changed its
                    \* positions, a fetch failed, an order was refused, the
                    \* user's onUpdate callback threw
  ordersPosted,     \* number of orders the execution boundary accepted so far
  \* ---- configuration (fixed at construction) ------------------------------
  dryRun,           \* CopyTradingConfig.dryRun
  dbConnected,      \* isDatabaseConnected()
  config,           \* targetAddresses of the MonitorOptions and the size
                    \* settings of the CopyTradingConfig, see DefaultConfig
  \* ---- AccountMonitor ----------------------------------------------------
  isMonitoring,     \* AccountMonitor.isMonitoring
  pollIntervalIds,  \* [Sources -> BOOLEAN]: the map holds a timer for s
  activeTimers,     \* [Sources -> Nat]: interval timers of the runtime for s
  timerPolls,       \* [Sources -> Nat]: updateStatus cycles begun by a timer,
                    \*                   awaiting getStatus
  starts,           \* [1..MaxStarts -> start() call record]
  stops,            \* number of stop() calls made
  traderStatuses,   \* [Sources -> [lastStatus, errorCount]]
  \* ---- CopyTradingMonitor ------------------------------------------------
  targetPositions,  \* [Sources -> [Ids of the stored snapshot -> Position]]
  executedPositions,\* [Sources -> SUBSET Ids]  (the in-flight set)
  stats,            \* [totalTradesExecuted, totalTradesFailed]
  handlers,         \* [1..MaxHandlers -> handleStatusUpdate invocation]
  \* ---- TradeExecutor -----------------------------------------------------
  apiKeyCreated,    \* TradeExecutor.apiKeyCreated
  store,            \* TradeModel collection: set of
                    \* [positionId, traderAddress, side, success]
  \* ---- observation (history) ---------------------------------------------
  hist,             \* record of observations, see HistInit
  \* ---- pure functions applied to drawn inputs -----------------------------
  probe             \* inputs and result of one application, see ProbeSpec

vars == << world, envSteps, ordersPosted, dryRun, dbConnected, config, isMonitoring,
           pollIntervalIds, activeTimers, timerPolls, starts, stops,
           traderStatuses, targetPositions, executedPositions, stats,
           handlers, apiKeyCreated, store, hist, probe >>

-----------------------------------------------------------------------------
(* Bounds of the model *)

MaxHandlers == 2        \* handleStatusUpdate invocations alive at once
MaxEnvSteps == 4        \* steps of the environment (see envSteps)
MaxStarts == 1          \* start() calls
MaxStops == 1           \* stop() calls
MaxTimerPolls == 1      \* timer-begun cycles of one source awaiting getStatus
MaxRetryAttempts == 1   \* config.maxRetryAttempts of the modelled run
IsoEnvSteps == 2        \* steps of the environment in the runs of IsoSpec
ExecEnvSteps == 2       \* steps of the environment in the runs of ExecSpec
ResizeEnvSteps == 2     \* steps of the environment in the runs of ResizeSpec
CallbackEnvSteps == 3   \* steps of the environment in the runs of CallbackSpec
DriftEnvSteps == 3      \* steps of the environment in the runs of DriftSpec
EnabledEnvSteps == 2    \* steps of the environment in the runs of EnabledSpec
MaxDrift == 2           \* shares a source adds to a position one at a time
FairEnvSteps == 3       \* steps of the environment in the runs of FairSpec

Sources == {"A", "B"}
Ids == {1, 2}
NoAddr == "none"
NoStatus == [user |-> NoAddr]

-----------------------------------------------------------------------------
(* Positions and snapshots *)

NoValue == 0 - 1          \* Position.value = '' (provider sent an empty value)

\* The Position the data API reports for identifier id (normalizePositions).
PositionOf(id) ==
  IF id = 1
    THEN [id |-> 1, quantity |-> 100, price |-> 2, value |-> 200]
    ELSE [id |-> id, quantity |-> 50, price |-> 1, value |-> NoValue]

\* The Position reported once the source has resized its holding: level 0 is
\* the size it was opened with, level 1 twice that, and every 2 more in
\* level is one more share (size and currentValue grow together,
\* normalizePositions 365-376).
PositionAt(id, level) ==
  LET base     == PositionOf(id)
      quantity == base.quantity * ((level % 2) + 1) + (level \div 2)
  IN  [base EXCEPT
         !.quantity = quantity,
         !.value = IF @ = NoValue THEN @ ELSE quantity * base.price]

\* A Map of no position.
NoPositions == [id \in {} |-> PositionOf(id)]

\* calculateTotalValue: the sum of the values, an empty value counting 0.
RECURSIVE SumValues(_)
SumValues(positions) ==
  IF DOMAIN positions = {} THEN 0
  ELSE LET x == CHOOSE y \in DOMAIN positions : TRUE
           v == positions[x].value
       IN (IF v = NoValue THEN 0 ELSE v)
            + SumValues([y \in DOMAIN positions \ {x} |-> positions[y]])

\* The TradingStatus getStatus builds from the positions answer: openPositions
\* maps each identifier to its Position, totalValue is calculateTotalValue.
\* held maps the identifiers the source holds to their size level.
StatusOf(s, held) ==
  LET positions == [id \in DOMAIN held |-> PositionAt(id, held[id])]
  IN  [user |-> s, openPositions |-> positions, totalValue |-> SumValues(positions)]

\* What the data API does with a positions request: it answers with the
\* positions, answers 404 Not Found, or fails otherwise (another HTTP
\* status, a timeout, no connection).
FetchAnswers == {"ok", "notFound", "error"}

GetUserPositionsRejecting404(s, held, answer) ==
  IF answer = "ok"
    THEN [fulfilled |-> TRUE, value |-> StatusOf(s, held)]
    ELSE [fulfilled |-> FALSE, value |-> NoStatus]

\* getUserPositions 81-172 for a source holding held: the positions; on 404
\* (from the primary or the alternative endpoint, 133-141 and 158-164) the
\* snapshot of no position with total value '0'; otherwise the promise is
\* rejected (143, 166-170).
GetUserPositions(s, held, answer) ==
  IF answer = "ok"
    THEN [fulfilled |-> TRUE, value |-> StatusOf(s, held)]
  ELSE IF answer = "notFound"
    THEN [fulfilled |-> TRUE, value |-> StatusOf(s, << >>)]
  ELSE [fulfilled |-> FALSE, value |-> NoStatus]

\* getStatus: Promise.allSettled turns a rejected getUserPositions into the
\* answer {positions: [], totalValue: '0'}; getStatus itself never throws.
GetStatus(s, answer) ==
  LET positionsResult == GetUserPositions(s, world[s], answer)
  IN  IF positionsResult.fulfilled THEN positionsResult.value
      ELSE StatusOf(s, << >>)

\* Ascending list of a set of identifiers (iteration order of the Map).
RECURSIVE SetToSeq(_)
SetToSeq(S) ==
  IF S = {} THEN << >>
  ELSE LET m == CHOOSE x \in S : \A y \in S : x <= y
       IN << m >> \o SetToSeq(S \ {m})

Abs(x) == IF x < 0 THEN 0 - x ELSE x
Max(a, b) == IF a >= b THEN a ELSE b
Min(a, b) == IF a <= b THEN a ELSE b


\* AccountMonitor.detectChanges.  Quantities are whole shares, values whole
\* dollars: |c - l| > max(1, l * 0.01) is compared after scaling by 100, and
\* |cv - lv| / max(lv, 0.01) > 0.01 after scaling by 10000.
QuantityChangedInclusive(currentQty, lastQty) ==
  100 * Abs(currentQty - lastQty) >= Max(100, lastQty)

\* detectChanges 212-217: the quantity of a position present in both
\* snapshots changed significantly.
QuantityChanged(currentQty, lastQty) ==
  100 * Abs(currentQty - lastQty) > Max(100, lastQty)

DetectChanges(current, last) ==
  IF last = NoStatus THEN TRUE
  ELSE
    LET cur == current.openPositions
        old == last.openPositions
    IN  \/ Cardinality(DOMAIN cur) # Cardinality(DOMAIN old)
        \/ \E id \in DOMAIN cur :
             \/ id \notin DOMAIN old
             \/ /\ id \in DOMAIN old
                /\ QuantityChanged(cur[id].quantity, old[id].quantity)
        \/ \E id \in DOMAIN old : id \notin DOMAIN cur
        \/ 10000 * Abs(current.totalValue - last.totalValue)
             > Max(100 * last.totalValue, 1)

-----------------------------------------------------------------------------
(* TradeExecutor configuration and pure parts *)

MultiplierPct == 100      \* positionSizeMultiplier 1.0, in percent
MinTradeSize == 1
MaxTradeSize == 5000
MaxPositionSize == 10000

\* The settings of the run: one monitored address, copy trading enabled (the
\* main entry passes enabled: true), the size settings of env.ts.
DefaultConfig ==
  [targetAddresses |-> {"A"},
   enabled |-> TRUE,
   positionSizeMultiplier |-> MultiplierPct,
   minTradeSize |-> MinTradeSize,
   maxTradeSize |-> MaxTradeSize,
   maxPositionSize |-> MaxPositionSize]

ValidateBuyWithLimitFirst(cfg, pos) ==
  LET tradeValue100 == pos.quantity * cfg.positionSizeMultiplier * pos.price
      positionValue100 ==
        (IF pos.value = NoValue THEN 0 ELSE pos.value) * cfg.positionSizeMultiplier
  IN  IF positionValue100 > 100 * cfg.maxPositionSize THEN "positionLimit"
      ELSE IF tradeValue100 < 100 * cfg.minTradeSize THEN "belowMinimum"
      ELSE IF tradeValue100 > 100 * cfg.maxTradeSize THEN "aboveMaximum"
      ELSE "ok"

\* executeBuy 163-190: the size checks, in the code's order.  Amounts are
\* compared after scaling by 100 (the multiplier is in percent).
ValidateBuyWith(cfg, pos) ==
  LET tradeValue100 == pos.quantity * cfg.positionSizeMultiplier * pos.price
      positionValue100 ==
        (IF pos.value = NoValue THEN 0 ELSE pos.value) * cfg.positionSizeMultiplier
  IN  IF tradeValue100 < 100 * cfg.minTradeSize THEN "belowMinimum"
      ELSE IF tradeValue100 > 100 * cfg.maxTradeSize THEN "aboveMaximum"
      ELSE IF positionValue100 > 100 * cfg.maxPositionSize THEN "positionLimit"
      ELSE "ok"

ValidateBuy(pos) == ValidateBuyWith(config, pos)

SellCheckLimited(cfg, pos) == ValidateBuyWith(cfg, pos)

\* executeSell 282-291: the call computes the quantity and the price of the
\* order and compares them with no setting.
SellCheck(cfg, pos) == "ok"

\* executeBuy 149-226 of an executor without a database, up to its first
\* await: 'success' (dry run), 'submit' (the order goes to the boundary), or
\* the reason it is refused for.
BuyOutcome(cfg, dry, pos) ==
  IF ValidateBuyWith(cfg, pos) # "ok" THEN ValidateBuyWith(cfg, pos)
  ELSE IF dry THEN "success"
  ELSE "submit"

\* executeSell 282-323 up to its first await: 'success' (dry run), 'submit'
\* (the order goes to the boundary), or the reason it is refused for.
SellOutcome(cfg, dry, pos) ==
  IF SellCheck(cfg, pos) # "ok" THEN SellCheck(cfg, pos)
  ELSE IF dry THEN "success"
  ELSE "submit"

\* executeBuy 251 / executeSell 348: the catch block retries.
ShouldRetryOffByOne(retryCount) == retryCount <= MaxRetryAttempts

ShouldRetry(retryCount) == retryCount < MaxRetryAttempts

\* saveTrade 114: side: result.position.value ? 'buy' : 'sell'.
SavedSide(pos) == IF pos.value # NoValue THEN "buy" ELSE "sell"

\* isDuplicateTrade 84-90: a success record with this key exists.
IsDuplicateTrade(positionId, traderAddress, side) ==
  [positionId |-> positionId, traderAddress |-> traderAddress, side |-> side,
   success |-> TRUE]
    \in store

-----------------------------------------------------------------------------
(* handleStatusUpdate invocations *)

Handlers == 1 .. MaxHandlers

\* current is the Map of the snapshot the handler was called with, news and
\* closed the identifiers still to open and to close, positions the Position
\* objects collected for them (680-694: those to open from the snapshot,
\* those to close from the stored Map; a position leaves it when its call
\* has returned).
\* retryCount, subs, accepted, dupAtEntry, dupQueryFailed, nonRetryable and
\* saveFailed describe the executeBuy / executeSell call in progress: its
\* retry level, the orders it submitted, whether createAndPostOrder has
\* returned for one of them, whether the store held a success record of its
\* key when it began, whether its latest duplicate query threw, whether a
\* rejection it caught was of a kind the boundary reports as final (such as
\* insufficient balance), whether its trade.save() threw.
IdleHandler ==
  [pc |-> "idle", addr |-> NoAddr, current |-> NoPositions,
   positions |-> NoPositions, news |-> << >>,
   closed |-> << >>, retryCount |-> 0, subs |-> 0, accepted |-> FALSE,
   dupAtEntry |-> FALSE,
   dupQueryFailed |-> FALSE, nonRetryable |-> FALSE, saveFailed |-> FALSE]

QuietWithBlockingDelay ==
  \A h \in Handlers : handlers[h].pc \notin {"entry", "delay"}

\* No callback is between two awaits on settled promises: external events
\* (timers, HTTP, database and order answers) are delivered only then.
Quiet == \A h \in Handlers : handlers[h].pc # "entry"

SideOf(hd) == IF hd.news # << >> THEN "buy" ELSE "sell"
HeadOf(hd) == IF hd.news # << >> THEN Head(hd.news) ELSE Head(hd.closed)
HeadPosition(hd) == hd.positions[HeadOf(hd)]

NewPositionsFirstOnly(current, lastPositions, executedForTrader) ==
  {id \in DOMAIN current :
     /\ id \notin DOMAIN lastPositions
     /\ id \notin executedForTrader
     /\ \A x \in DOMAIN current : id <= x}

\* handleStatusUpdate 680-686: identifiers to open.  current and
\* lastPositions are Maps from identifier to Position.
NewPositions(current, lastPositions, executedForTrader) ==
  {id \in DOMAIN current :
     id \notin DOMAIN lastPositions /\ id \notin executedForTrader}

ClosedPositionsUnchecked(current, lastPositions, executedForTrader) ==
  {id \in DOMAIN lastPositions : id \notin DOMAIN current}

\* handleStatusUpdate 688-694: identifiers to close.
ClosedPositions(current, lastPositions, executedForTrader) ==
  {id \in DOMAIN lastPositions :
     id \notin DOMAIN current /\ id \in executedForTrader}

-----------------------------------------------------------------------------
(* Initial state: the objects as constructed, nothing started *)

ZeroPerPosition == [s \in Sources |-> [id \in Ids |-> 0]]

HistInit ==
  [openSuccess    |-> ZeroPerPosition,   \* executeBuy calls that returned success
   closeSuccess   |-> ZeroPerPosition,   \* executeSell calls that returned success
   sellCalls      |-> ZeroPerPosition,   \* executeSell calls made by the handler
   lastSuccess    |-> [s \in Sources |-> [id \in Ids |-> "none"]],
                                         \* side of the last call that succeeded
   everInFlight   |-> [s \in Sources |-> {}],
   droppedClose   |-> [s \in Sources |-> {}],  \* vanished while not in flight
   fetchFailed    |-> [s \in Sources |-> 0],   \* cycles whose fetch failed
   onErrorCalls   |-> [s \in Sources |-> 0],   \* onError(error, s) calls
   userUpdates    |-> [s \in Sources |-> FALSE],
                                         \* the user's onUpdate was called
   silentPoll     |-> [s \in Sources |-> FALSE],
                                         \* a cycle fetched a snapshot other
                                         \* than the stored one, no change
   copyTradingStats |-> [pushed |-> FALSE, totalTradesExecuted |-> 0],
                                         \* HealthMonitor.copyTradingStats: the
                                         \* executed-trades count of the
                                         \* getStats() copy onTradeExecuted
                                         \* gave to updateCopyTradingStats
   results        |-> {}]                \* what the calls returned, see Result

NewStart == [pc |-> "new", pending |-> {}]

NoProbe == [kind |-> "none"]

\* The objects as their constructors leave them.
Constructed ==
  /\ world = [s \in Sources |-> << >>]
  /\ ordersPosted = 0
  /\ isMonitoring = FALSE
  /\ pollIntervalIds = [s \in Sources |-> FALSE]
  /\ activeTimers = [s \in Sources |-> 0]
  /\ timerPolls = [s \in Sources |-> 0]
  /\ starts = [k \in 1 .. MaxStarts |-> NewStart]
  /\ stops = 0
  /\ traderStatuses = [s \in Sources |-> [lastStatus |-> NoStatus, errorCount |-> 0]]
  /\ targetPositions = [s \in Sources |-> NoPositions]
  /\ executedPositions = [s \in Sources |-> {}]
  /\ stats = [totalTradesExecuted |-> 0, totalTradesFailed |-> 0]
  /\ handlers = [h \in Handlers |-> IdleHandler]
  /\ apiKeyCreated = FALSE
  /\ store = {}
  /\ hist = HistInit

Init ==
  /\ probe = NoProbe
  /\ envSteps = 0
  /\ dryRun \in BOOLEAN
  /\ dbConnected \in BOOLEAN
  /\ config = DefaultConfig
  /\ Constructed

envVars == << world, envSteps, ordersPosted >>
cfgVars == << dryRun, dbConnected, config, probe >>
monitorVars == << isMonitoring, pollIntervalIds, activeTimers, timerPolls,
                  starts, stops, traderStatuses >>
copyVars == << targetPositions, executedPositions, stats >>

-----------------------------------------------------------------------------
(* The executor's calls as seen from handleStatusUpdate *)

\* toFixed(4) of an amount given in hundredths, in units of 0.0001.  The
\* amounts of the model (whole quantities and prices, the multiplier in
\* percent) have at most two decimals, which toFixed(4) renders exactly.
ToFixed4(amount100) == amount100 * 100

\* executeBuy 164-166, 201-202 / executeSell 288-290, 300-301:
\* tradeQuantity.toFixed(4) and tradePrice.toFixed(4).
ExecutedQuantity(pos) == ToFixed4(pos.quantity * config.positionSizeMultiplier)
ExecutedPrice(pos) == ToFixed4(pos.price * 100)

\* What one executeBuy / executeSell call returned (the TradeExecutionResult),
\* with what the call did: the orders it submitted, the retries it made, and
\* the flags of the handler's record (see IdleHandler).
Result(hd, success, error) ==
  [side |-> SideOf(hd), id |-> HeadOf(hd), addr |-> hd.addr,
   position |-> HeadPosition(hd), success |-> success, error |-> error,
   executedQuantity |->
     IF success THEN ExecutedQuantity(HeadPosition(hd)) ELSE NoValue,
   executedPrice |->
     IF success THEN ExecutedPrice(HeadPosition(hd)) ELSE NoValue,
   subs |-> hd.subs, retryCount |-> hd.retryCount,
   dupAtEntry |-> hd.dupAtEntry, dupQueryFailed |-> hd.dupQueryFailed,
   nonRetryable |-> hd.nonRetryable, saveFailed |-> hd.saveFailed]

InFlightAfterAnyResult(inFlight, side, id, success) ==
  IF side = "buy" THEN inFlight \cup {id} ELSE inFlight \ {id}

\* handleStatusUpdate 708-709 / 747-748: the in-flight set of the source
\* after a call for id returned.
InFlightAfter(inFlight, side, id, success) ==
  IF ~success THEN inFlight
  ELSE IF side = "buy" THEN inFlight \cup {id}
  ELSE inFlight \ {id}

RemainingNoneAfterFailure(hd, success) ==
  IF success
    THEN LET id   == HeadOf(hd)
             left == [x \in DOMAIN hd.positions \ {id} |-> hd.positions[x]]
         IN  IF SideOf(hd) = "buy"
               THEN [hd EXCEPT !.news = Tail(hd.news), !.positions = left]
               ELSE [hd EXCEPT !.closed = Tail(hd.closed), !.positions = left]
    ELSE [hd EXCEPT !.news = << >>, !.closed = << >>, !.positions = NoPositions]

\* handleStatusUpdate 697-734 / 737-773: the try/catch is inside each loop,
\* so the loop goes on to the next position whatever the call returned or
\* threw.  The handler's record once the call for its head position is over.
Remaining(hd, success) ==
  LET id   == HeadOf(hd)
      left == [x \in DOMAIN hd.positions \ {id} |-> hd.positions[x]]
  IN  IF SideOf(hd) = "buy"
        THEN [hd EXCEPT !.news = Tail(hd.news), !.positions = left]
        ELSE [hd EXCEPT !.closed = Tail(hd.closed), !.positions = left]

\* handleStatusUpdate 708-733 / 747-772 and 775-780: the handler takes the
\* result of executeBuy / executeSell for the head position, updates the
\* in-flight set and the counters, and goes on to the next position; after
\* the last one it stores the snapshot it was called with.
\* hd is the handler's record at the return of the call, hb the observation
\* record of the step so far.  A call that succeeded has called
\* onTradeExecuted before returning (trade-executor.ts 204 / 240), which gave
\* the health monitor a copy of the counters as they were then.
Complete(h, hd, success, error, hb) ==
  LET s    == hd.addr
      side == SideOf(hd)
      id   == HeadOf(hd)
      rest == Remaining(hd, success)
      more == rest.news # << >> \/ rest.closed # << >>
      exec == InFlightAfter(executedPositions[s], side, id, success)
  IN  /\ executedPositions' = [executedPositions EXCEPT ![s] = exec]
      /\ stats' = IF success
                    THEN [stats EXCEPT !.totalTradesExecuted = @ + 1]
                    ELSE [stats EXCEPT !.totalTradesFailed = @ + 1]
      /\ IF more
           THEN /\ handlers' = [handlers EXCEPT ![h] =
                      [rest EXCEPT !.pc = "entry", !.retryCount = 0,
                                   !.subs = 0, !.accepted = FALSE,
                                   !.dupAtEntry = FALSE,
                                   !.dupQueryFailed = FALSE,
                                   !.nonRetryable = FALSE,
                                   !.saveFailed = FALSE]]
                /\ UNCHANGED targetPositions
           ELSE /\ handlers' = [handlers EXCEPT ![h] = IdleHandler]
                /\ targetPositions' = [targetPositions EXCEPT ![s] = hd.current]
      /\ hist' = [hb EXCEPT
           !.openSuccess[s][id] = IF success /\ side = "buy" THEN Min(@ + 1, 2) ELSE @,
           !.closeSuccess[s][id] = IF success /\ side = "sell" THEN Min(@ + 1, 2) ELSE @,
           !.lastSuccess[s][id] = IF success THEN side ELSE @,
           !.everInFlight[s] = IF success /\ side = "buy" THEN @ \cup {id} ELSE @,
           !.copyTradingStats =
              IF success /\ error = "none"
                THEN [pushed |-> TRUE,
                      totalTradesExecuted |-> stats.totalTradesExecuted]
                ELSE @,
           !.results = @ \cup {Result(hd, success, error)}]

\* The handler stays suspended in the call, at pc.
Await(h, hd, pc, hb) ==
  /\ handlers' = [handlers EXCEPT ![h] = [hd EXCEPT !.pc = pc]]
  /\ hist' = hb
  /\ UNCHANGED copyVars

TradeLive(h, hd, hb) == Await(h, [hd EXCEPT !.subs = @ + 1], "submit", hb)

\* executeBuy 192-226 / executeSell 292-323: dry run synthesizes the success
\* and saves it; otherwise the order is posted.  saveTrade awaits the
\* database only when it is connected (and the result is a success).
Trade(h, hd, hb) ==
  IF dryRun
    THEN IF dbConnected THEN Await(h, hd, "save", hb)
         ELSE Complete(h, hd, TRUE, "none", hb)
    ELSE Await(h, [hd EXCEPT !.subs = @ + 1], "submit", hb)

AfterDuplicateCheckUnvalidated(h, hd, dup, hb) ==
  IF dup THEN Complete(h, hd, FALSE, "Duplicate trade", hb)
  ELSE Trade(h, hd, hb)

\* executeBuy 149-190 once isDuplicateTrade has answered dup.
AfterDuplicateCheck(h, hd, dup, hb) ==
  IF dup THEN Complete(h, hd, FALSE, "Duplicate trade", hb)
  ELSE IF ValidateBuy(HeadPosition(hd)) # "ok"
    THEN Complete(h, hd, FALSE, ValidateBuy(HeadPosition(hd)), hb)
  ELSE Trade(h, hd, hb)

ExecuteBuyEntryRemembering(h, hd, hb) ==
  IF dbConnected THEN Await(h, hd, "dupQuery", hb)
  ELSE AfterDuplicateCheck(h, hd, hist.openSuccess[hd.addr][HeadOf(hd)] > 0, hb)

\* executeBuy 140-149: the call begins (also on each retry); the duplicate
\* query is awaited only when the database is connected (isDuplicateTrade 79).
ExecuteBuyEntry(h, hd, hb) ==
  IF dbConnected THEN Await(h, hd, "dupQuery", hb)
  ELSE AfterDuplicateCheck(h, hd, FALSE, hb)

\* executeSell 275-290: the call begins (also on each retry).
ExecuteSellEntry(h, hd, hb) ==
  IF SellCheck(config, HeadPosition(hd)) # "ok"
    THEN Complete(h, hd, FALSE, SellCheck(config, HeadPosition(hd)), hb)
    ELSE Trade(h, hd, hb)

\* A handler between two calls, or between a retry delay and the retried call.
Entry(h) ==
  LET hd0 == handlers[h]
      hd  == [hd0 EXCEPT !.dupAtEntry =
                 IF hd0.retryCount = 0
                   THEN dbConnected
                        /\ IsDuplicateTrade(HeadOf(hd0), hd0.addr, SideOf(hd0))
                   ELSE @]
      hb  == IF hd0.retryCount = 0 /\ SideOf(hd0) = "sell"
               THEN [hist EXCEPT !.sellCalls[hd0.addr][HeadOf(hd0)] = Min(@ + 1, 2)]
               ELSE hist
  IN  /\ hd0.pc = "entry"
      /\ IF SideOf(hd) = "buy" THEN ExecuteBuyEntry(h, hd, hb)
         ELSE ExecuteSellEntry(h, hd, hb)
      /\ UNCHANGED << envVars, cfgVars, monitorVars, apiKeyCreated, store >>

\* isDuplicateTrade 84-90: TradeModel.findOne answers.
DupQueryDone(h) ==
  LET hd == handlers[h]
  IN  /\ Quiet
      /\ hd.pc = "dupQuery"
      /\ AfterDuplicateCheck(h, [hd EXCEPT !.dupQueryFailed = FALSE],
           IsDuplicateTrade(HeadOf(hd), hd.addr, "buy"), hist)
      /\ UNCHANGED << envVars, cfgVars, monitorVars, apiKeyCreated, store >>

DupQueryFailedAsDuplicate(h) ==
  LET hd == handlers[h]
  IN  /\ Quiet
      /\ hd.pc = "dupQuery"
      /\ envSteps < MaxEnvSteps
      /\ envSteps' = envSteps + 1
      /\ AfterDuplicateCheck(h, [hd EXCEPT !.dupQueryFailed = TRUE], TRUE, hist)
      /\ UNCHANGED << world, ordersPosted, cfgVars, monitorVars, apiKeyCreated, store >>

\* isDuplicateTrade 91-94: TradeModel.findOne throws; the answer is 'not a
\* duplicate'.
DupQueryFailed(h) ==
  LET hd == handlers[h]
  IN  /\ Quiet
      /\ hd.pc = "dupQuery"
      /\ envSteps < MaxEnvSteps
      /\ envSteps' = envSteps + 1
      /\ AfterDuplicateCheck(h, [hd EXCEPT !.dupQueryFailed = TRUE], FALSE, hist)
      /\ UNCHANGED << world, ordersPosted, cfgVars, monitorVars, apiKeyCreated, store >>

\* executeBuy 220-242 / executeSell 317-339: createAndPostOrder returns.
SubmitAccepted(h) ==
  LET hd == handlers[h]
  IN  /\ Quiet
      /\ hd.pc = "submit"
      /\ ordersPosted' = ordersPosted + 1
      /\ IF dbConnected
           THEN /\ Await(h, [hd EXCEPT !.accepted = TRUE], "save", hist)
           ELSE /\ Complete(h, [hd EXCEPT !.accepted = TRUE], TRUE, "none", hist)
      /\ UNCHANGED << world, envSteps, cfgVars, monitorVars, apiKeyCreated, store >>

\* executeBuy 243-264 / executeSell 340-361: createAndPostOrder throws.
SubmitRejected(h) ==
  LET hd == handlers[h]
  IN  /\ Quiet
      /\ hd.pc = "submit"
      /\ envSteps < MaxEnvSteps
      /\ envSteps' = envSteps + 1
      /\ \E retryable \in BOOLEAN :
           LET hc == [hd EXCEPT !.nonRetryable = @ \/ ~retryable]
           IN  IF ShouldRetry(hd.retryCount)
                 THEN Await(h, hc, "delay", hist)
                 ELSE Complete(h, hc, FALSE, "exhausted", hist)
      /\ UNCHANGED << world, ordersPosted, cfgVars, monitorVars, apiKeyCreated, store >>

DelayDoneNever(h) ==
  /\ handlers[h].pc = "delay"
  /\ handlers[h].retryCount < 0
  /\ UNCHANGED vars

\* executeBuy 256-257 / executeSell 353-354: the retry delay is over and the
\* call is made again with retryCount + 1.
DelayDone(h) ==
  LET hd == handlers[h]
  IN  /\ Quiet
      /\ hd.pc = "delay"
      /\ Await(h, [hd EXCEPT !.retryCount = @ + 1], "entry", hist)
      /\ UNCHANGED << envVars, cfgVars, monitorVars, apiKeyCreated, store >>

\* saveTrade 108-129: trade.save() answers; a key already present violates
\* the unique index and the failure is logged and swallowed.  (At
\* 'saveInCatch' the save is the one the catch block makes, 260 / 357.)
SaveDone(h) ==
  LET hd  == handlers[h]
      rec == [positionId |-> HeadOf(hd), traderAddress |-> hd.addr,
              side |-> SavedSide(HeadPosition(hd)), success |-> TRUE]
  IN  /\ Quiet
      /\ hd.pc \in {"save", "saveInCatch"}
      /\ store' = store \cup {rec}
      /\ Complete(h, hd, TRUE,
           IF hd.pc = "saveInCatch" THEN "callback" ELSE "none", hist)
      /\ UNCHANGED << envVars, cfgVars, monitorVars, apiKeyCreated >>

SaveFailedBlocks(h) ==
  LET hd == handlers[h]
  IN  /\ Quiet
      /\ hd.pc = "save"
      /\ envSteps < MaxEnvSteps
      /\ envSteps' = envSteps + 1
      /\ Complete(h, [hd EXCEPT !.saveFailed = TRUE], FALSE, "persistence", hist)
      /\ UNCHANGED << world, ordersPosted, cfgVars, monitorVars, apiKeyCreated, store >>

\* saveTrade 127-129: trade.save() throws (the database fails); the failure
\* is logged and swallowed.
SaveFailed(h) ==
  LET hd == handlers[h]
  IN  /\ Quiet
      /\ hd.pc \in {"save", "saveInCatch"}
      /\ envSteps < MaxEnvSteps
      /\ envSteps' = envSteps + 1
      /\ Complete(h, [hd EXCEPT !.saveFailed = TRUE], TRUE,
           IF hd.pc = "saveInCatch" THEN "callback" ELSE "none", hist)
      /\ UNCHANGED << world, ordersPosted, cfgVars, monitorVars, apiKeyCreated, store >>

-----------------------------------------------------------------------------
(* CopyTradingMonitor.handleStatusUpdate, from its call to its first await *)

FreeHandlers == {h \in Handlers : handlers[h].pc = "idle"}

\* handleStatusUpdate 672-697 (and 775-780 when there is nothing to trade).
\* hb is the observation record of the step so far.
HandleStatusUpdate(s, status, hb) ==
  LET current == status.openPositions
      lastPositions == targetPositions[s]
      news    == NewPositions(current, lastPositions, executedPositions[s])
      closed  == ClosedPositions(current, lastPositions, executedPositions[s])
      dropped == {id \in DOMAIN lastPositions :
                    id \notin DOMAIN current /\ id \notin executedPositions[s]}
      h       == CHOOSE x \in FreeHandlers : \A y \in FreeHandlers : x <= y
  IN  /\ hist' = [hb EXCEPT !.droppedClose[s] = @ \cup dropped]
      /\ IF news = {} /\ closed = {}
           THEN /\ targetPositions' = [targetPositions EXCEPT ![s] = current]
                /\ UNCHANGED handlers
           ELSE /\ FreeHandlers # {}
                /\ handlers' = [handlers EXCEPT ![h] =
                     [IdleHandler EXCEPT !.pc = "entry", !.addr = s,
                        !.current = current,
                        !.positions = [id \in news \cup closed |->
                           IF id \in news THEN current[id]
                           ELSE lastPositions[id]],
                        !.news = SetToSeq(news),
                        !.closed = SetToSeq(closed)]]
                /\ UNCHANGED targetPositions

OnUpdateIgnoringEnabled(s, status, hb) ==
  HandleStatusUpdate(s, status, [hb EXCEPT !.userUpdates[s] = TRUE])

\* The onUpdate wrapper of the constructor, 612-619, when the user's callback
\* returns: handleStatusUpdate is called only if copy trading is enabled.
OnUpdate(s, status, hb) ==
  IF config.enabled
    THEN HandleStatusUpdate(s, status, [hb EXCEPT !.userUpdates[s] = TRUE])
    ELSE /\ hist' = [hb EXCEPT !.userUpdates[s] = TRUE]
         /\ UNCHANGED << handlers, targetPositions >>

-----------------------------------------------------------------------------
(* AccountMonitor *)

\* The source holds a position at a size that differs from a size it had by
\* single shares (only such a snapshot can differ from the stored one without
\* detectChanges reporting it).
Drifted(s) == \E id \in DOMAIN world[s] : world[s][id] > 1

\* The cycle fetched a snapshot other than the stored one and detectChanges
\* reported no change.
Silent(status, last) ==
  /\ ~DetectChanges(status, last)
  /\ status.openPositions # last.openPositions

UpdateStatusAlwaysStoring(s, answer, throws) ==
  LET status == GetStatus(s, answer)
      ts     == traderStatuses[s]
      hb     == [hist EXCEPT
                   !.fetchFailed[s] = IF answer = "error" THEN @ + 1 ELSE @,
                   !.silentPoll[s] = @ \/ (Drifted(s) /\ Silent(status, ts.lastStatus))]
  IN  IF DetectChanges(status, ts.lastStatus)
        THEN IF throws
               THEN /\ traderStatuses' = [traderStatuses EXCEPT ![s] =
                          [lastStatus |-> status, errorCount |-> 1]]
                    /\ hist' = [hb EXCEPT !.onErrorCalls[s] = @ + 1,
                                          !.userUpdates[s] = TRUE]
                    /\ UNCHANGED << handlers, targetPositions >>
               ELSE /\ traderStatuses' = [traderStatuses EXCEPT ![s] =
                          [lastStatus |-> status, errorCount |-> 0]]
                    /\ OnUpdate(s, status, hb)
        ELSE /\ ~throws
             /\ hist' = hb
             /\ traderStatuses' = [traderStatuses EXCEPT ![s].lastStatus = status]
             /\ UNCHANGED << handlers, targetPositions >>

\* updateStatus 148-183 once getStatus has answered, with the onUpdate wrapper
\* of CopyTradingMonitor (612-619): the user's callback, then
\* handleStatusUpdate.  throws: the user's onUpdate callback throws.
UpdateStatus(s, answer, throws) ==
  LET status     == GetStatus(s, answer)
      ts         == traderStatuses[s]
      hasChanges == DetectChanges(status, ts.lastStatus)
      hb         == [hist EXCEPT
                       !.fetchFailed[s] = IF answer = "error" THEN @ + 1 ELSE @,
                       !.silentPoll[s] = @ \/ (Drifted(s) /\ Silent(status, ts.lastStatus))]
  IN  IF hasChanges \/ ts.lastStatus = NoStatus
        THEN IF throws
               THEN /\ traderStatuses' = [traderStatuses EXCEPT ![s] =
                          [lastStatus |-> status, errorCount |-> 1]]
                    /\ hist' = [hb EXCEPT !.onErrorCalls[s] = @ + 1,
                                          !.userUpdates[s] = TRUE]
                    /\ UNCHANGED << handlers, targetPositions >>
               ELSE /\ traderStatuses' = [traderStatuses EXCEPT ![s] =
                          [lastStatus |-> status, errorCount |-> 0]]
                    /\ OnUpdate(s, status, hb)
        ELSE /\ ~throws
             /\ hist' = hb
             /\ UNCHANGED << traderStatuses, handlers, targetPositions >>

\* What the data API and the user's callback may do in one cycle: at most
\* one of the two departs from the normal course, and that is a step of the
\* environment.
CycleInputs ==
  {io \in [fetch : FetchAnswers, throws : BOOLEAN] :
     (io.fetch # "ok" \/ io.throws) =>
        (~(io.fetch # "ok" /\ io.throws) /\ envSteps < MaxEnvSteps)}

\* The inputs of a cycle of s: the data API answers 404 Not Found only about
\* an address that holds no position (about one that holds some, a failing
\* request is the answer "error": it leaves the program in the same state).
CycleInputsOf(s) ==
  {io \in CycleInputs : io.fetch = "notFound" => DOMAIN world[s] = {}}

\* setInterval callback (start 69-72): a cycle of s begins and awaits getStatus.
TimerFire(s) ==
  /\ Quiet
  /\ activeTimers[s] > 0
  /\ timerPolls[s] < MaxTimerPolls
  /\ timerPolls' = [timerPolls EXCEPT ![s] = @ + 1]
  /\ UNCHANGED << envVars, cfgVars, isMonitoring, pollIntervalIds,
                  activeTimers, starts, stops, traderStatuses, copyVars,
                  handlers, apiKeyCreated, store, hist >>

\* A timer-begun cycle of s gets its answer.
TimerPollDone(s) ==
  /\ Quiet
  /\ timerPolls[s] > 0
  /\ timerPolls' = [timerPolls EXCEPT ![s] = @ - 1]
  /\ \E io \in CycleInputsOf(s) :
       /\ UpdateStatus(s, io.fetch, io.throws)
       /\ envSteps' = IF io.fetch = "ok" /\ ~io.throws THEN envSteps ELSE envSteps + 1
  /\ UNCHANGED << world, ordersPosted, cfgVars, isMonitoring, pollIntervalIds,
                  activeTimers, starts, stops, executedPositions, stats,
                  apiKeyCreated, store >>

\* AccountMonitor.start 51-65: begin the initial cycle of every address.
AccountStart(k) ==
  IF isMonitoring
    THEN /\ starts' = [starts EXCEPT ![k].pc = "done"]
         /\ UNCHANGED isMonitoring
    ELSE /\ isMonitoring' = TRUE
         /\ starts' = [starts EXCEPT ![k] =
              [pc |-> "polling", pending |-> config.targetAddresses]]

\* CopyTradingMonitor.start 635-658: initialize the executor (a dry run
\* returns at once, initialize 46-49), then start the account monitor; with
\* copy trading disabled only the account monitor is started (636-640).
StartCall(k) ==
  /\ Quiet
  /\ starts[k].pc = "new"
  /\ \A j \in 1 .. (k - 1) : starts[j].pc # "new"
  /\ IF dryRun \/ ~config.enabled
       THEN AccountStart(k)
       ELSE /\ starts' = [starts EXCEPT ![k].pc = "init"]
            /\ UNCHANGED isMonitoring
  /\ UNCHANGED << envVars, cfgVars, pollIntervalIds, activeTimers,
                  timerPolls, stops, traderStatuses, copyVars, handlers,
                  apiKeyCreated, store, hist >>

\* initialize 51-57: createOrDeriveApiKey answers.
InitializeDone(k) ==
  /\ Quiet
  /\ starts[k].pc = "init"
  /\ apiKeyCreated' = TRUE
  /\ AccountStart(k)
  /\ UNCHANGED << envVars, cfgVars, pollIntervalIds, activeTimers,
                  timerPolls, stops, traderStatuses, copyVars, handlers,
                  store, hist >>

\* initialize 58-61 and start 649-653: createOrDeriveApiKey throws and, the
\* run not being a dry run, start() throws.
InitializeFailed(k) ==
  /\ Quiet
  /\ starts[k].pc = "init"
  /\ starts' = [starts EXCEPT ![k].pc = "failed"]
  /\ UNCHANGED << envVars, cfgVars, isMonitoring, pollIntervalIds,
                  activeTimers, timerPolls, stops, traderStatuses, copyVars,
                  handlers, apiKeyCreated, store, hist >>

\* An initial cycle of start() call k gets its answer; after the last one
\* Promise.allSettled resolves and start 67-74 arms a timer per address.
StartPollDone(k, s) ==
  LET pending == starts[k].pending \ {s}
  IN  /\ Quiet
      /\ starts[k].pc = "polling"
      /\ s \in starts[k].pending
      /\ \E io \in CycleInputsOf(s) :
           /\ UpdateStatus(s, io.fetch, io.throws)
           /\ envSteps' = IF io.fetch = "ok" /\ ~io.throws THEN envSteps ELSE envSteps + 1
      /\ IF pending = {}
           THEN /\ starts' = [starts EXCEPT ![k] = [pc |-> "done", pending |-> {}]]
                /\ activeTimers' = [a \in Sources |->
                     IF a \in config.targetAddresses
                       THEN activeTimers[a] + 1 ELSE activeTimers[a]]
                /\ pollIntervalIds' = [a \in Sources |->
                     a \in config.targetAddresses]
           ELSE /\ starts' = [starts EXCEPT ![k].pending = pending]
                /\ UNCHANGED << activeTimers, pollIntervalIds >>
      /\ UNCHANGED << world, ordersPosted, cfgVars, isMonitoring, timerPolls,
                      stops, executedPositions, stats, apiKeyCreated, store >>

\* CopyTradingMonitor.stop 663-666 -> AccountMonitor.stop 88-99.
Stop ==
  /\ Quiet
  /\ stops < MaxStops
  /\ stops' = stops + 1
  /\ IF ~isMonitoring
       THEN UNCHANGED << isMonitoring, activeTimers, pollIntervalIds >>
       ELSE /\ isMonitoring' = FALSE
            /\ activeTimers' = [a \in Sources |->
                 IF pollIntervalIds[a] THEN activeTimers[a] - 1 ELSE activeTimers[a]]
            /\ pollIntervalIds' = [a \in Sources |-> FALSE]
  /\ UNCHANGED << envVars, cfgVars, timerPolls, starts,
                  traderStatuses, copyVars, handlers, apiKeyCreated, store, hist >>

-----------------------------------------------------------------------------
(* Environment *)

\* A source opens or closes a position.
WorldChange(s, id) ==
  /\ Quiet
  /\ s \in config.targetAddresses
  /\ envSteps < MaxEnvSteps
  /\ envSteps' = envSteps + 1
  /\ world' = [world EXCEPT ![s] =
       [x \in IF id \in DOMAIN @ THEN DOMAIN @ \ {id} ELSE DOMAIN @ \cup {id} |->
          IF x = id THEN 0 ELSE @[x]]]
  /\ UNCHANGED << ordersPosted, cfgVars, monitorVars, copyVars,
                  handlers, apiKeyCreated, store, hist >>

-----------------------------------------------------------------------------

Next ==
  \/ \E s \in Sources, id \in Ids : WorldChange(s, id)
  \/ \E k \in 1 .. MaxStarts : StartCall(k)
  \/ \E k \in 1 .. MaxStarts : InitializeDone(k)
  \/ \E k \in 1 .. MaxStarts : InitializeFailed(k)
  \/ \E k \in 1 .. MaxStarts, s \in Sources : StartPollDone(k, s)
  \/ Stop
  \/ \E s \in Sources : TimerFire(s)
  \/ \E s \in Sources : TimerPollDone(s)
  \/ \E h \in Handlers : Entry(h)
  \/ \E h \in Handlers : DupQueryDone(h)
  \/ \E h \in Handlers : DupQueryFailed(h)
  \/ \E h \in Handlers : SubmitAccepted(h)
  \/ \E h \in Handlers : SubmitRejected(h)
  \/ \E h \in Handlers : DelayDone(h)
  \/ \E h \in Handlers : SaveDone(h)
  \/ \E h \in Handlers : SaveFailed(h)

Spec == Init /\ [][Next]_vars

\* The event loop delivers every pending event: a timer that is armed fires,
\* every awaited answer (data API, database, execution boundary, retry
\* delay) arrives.  Nothing is assumed of the environment's own steps.
Fairness ==
  /\ \A k \in 1 .. MaxStarts :
       /\ WF_vars(InitializeDone(k) \/ InitializeFailed(k))
       /\ \A s \in Sources : WF_vars(StartPollDone(k, s))
  /\ \A s \in Sources : WF_vars(TimerFire(s)) /\ WF_vars(TimerPollDone(s))
  /\ \A h \in Handlers :
       /\ WF_vars(Entry(h))
       /\ WF_vars(DupQueryDone(h) \/ DupQueryFailed(h))
       /\ WF_vars(SubmitAccepted(h) \/ SubmitRejected(h))
       /\ WF_vars(DelayDone(h))
       /\ WF_vars(SaveDone(h) \/ SaveFailed(h))

\* The runs of Spec with one step of the environment less.
FairInit ==
  /\ probe = NoProbe
  /\ envSteps = MaxEnvSteps - FairEnvSteps
  /\ dryRun \in BOOLEAN
  /\ dbConnected \in BOOLEAN
  /\ config = DefaultConfig
  /\ Constructed

FairSpec == FairInit /\ [][Next]_vars /\ Fairness

\* Two monitored addresses, under the size settings of env.ts or with a
\* MAX_TRADE_SIZE that refuses one of the positions of PositionOf.
IsoConfigs ==
  {[DefaultConfig EXCEPT !.targetAddresses = {"A", "B"}, !.maxTradeSize = m] :
     m \in {MaxTradeSize, 90}}

\* Runs with two monitored addresses.
IsoInit ==
  /\ probe = NoProbe
  /\ envSteps = MaxEnvSteps - IsoEnvSteps
  /\ dryRun \in BOOLEAN
  /\ dbConnected \in BOOLEAN
  /\ config \in IsoConfigs
  /\ Constructed

IsoSpec == IsoInit /\ [][Next]_vars

\* Size settings a run may be configured with (POSITION_SIZE_MULTIPLIER in
\* percent, MIN_TRADE_SIZE, MAX_TRADE_SIZE, MAX_POSITION_SIZE): the defaults,
\* and one setting each that refuses a position of PositionOf.
Multipliers == {MultiplierPct, 50}
SizeLimits ==
  {[minTradeSize |-> MinTradeSize, maxTradeSize |-> MaxTradeSize,
    maxPositionSize |-> MaxPositionSize],
   [minTradeSize |-> 60, maxTradeSize |-> MaxTradeSize,
    maxPositionSize |-> MaxPositionSize],
   [minTradeSize |-> MinTradeSize, maxTradeSize |-> 90,
    maxPositionSize |-> MaxPositionSize],
   [minTradeSize |-> MinTradeSize, maxTradeSize |-> MaxTradeSize,
    maxPositionSize |-> 90]}

ExecConfigs ==
  {[DefaultConfig EXCEPT !.positionSizeMultiplier = mu,
                         !.minTradeSize = l.minTradeSize,
                         !.maxTradeSize = l.maxTradeSize,
                         !.maxPositionSize = l.maxPositionSize] :
     mu \in Multipliers, l \in SizeLimits}

\* Runs under any of these settings.
ExecInit ==
  /\ probe = NoProbe
  /\ envSteps = MaxEnvSteps - ExecEnvSteps
  /\ dryRun \in BOOLEAN
  /\ dbConnected \in BOOLEAN
  /\ config \in ExecConfigs
  /\ Constructed

ExecSpec == ExecInit /\ [][Next]_vars

\* The same runs, every pending event being delivered.
FairExecSpec == ExecSpec /\ Fairness

\* A source changes the size of a position it holds (it buys more of it, or
\* sells the part it had added).
Resize(s, id) ==
  /\ Quiet
  /\ s \in config.targetAddresses
  /\ id \in DOMAIN world[s]
  /\ envSteps < MaxEnvSteps
  /\ envSteps' = envSteps + 1
  /\ world' = [world EXCEPT ![s][id] = 1 - @]
  /\ UNCHANGED << ordersPosted, cfgVars, monitorVars, copyVars,
                  handlers, apiKeyCreated, store, hist >>

ResizeNext ==
  \/ Next
  \/ \E s \in Sources, id \in Ids : Resize(s, id)

\* Runs in which the sources also resize their positions.
ResizeInit ==
  /\ probe = NoProbe
  /\ envSteps = MaxEnvSteps - ResizeEnvSteps
  /\ dryRun \in BOOLEAN
  /\ dbConnected \in BOOLEAN
  /\ config = DefaultConfig
  /\ Constructed

ResizeSpec == ResizeInit /\ [][ResizeNext]_vars

\* executeBuy 238-258 / executeSell 335-355 in a live run: the order was
\* accepted (and saveTrade is over), and the onTradeExecuted callback, which
\* is called inside the try block, throws.  The catch block retries the call
\* or, at the last retry level, saves the result (whose success is already
\* set) with the error and returns it.
ExecutedCallbackThrows(h) ==
  LET hd0 == handlers[h]
      hd  == [hd0 EXCEPT !.accepted = TRUE]
      rec == [positionId |-> HeadOf(hd0), traderAddress |-> hd0.addr,
              side |-> SavedSide(HeadPosition(hd0)), success |-> TRUE]
  IN  /\ Quiet
      /\ ~dryRun
      /\ \/ hd0.pc = "submit" /\ ~dbConnected
         \/ hd0.pc = "save"
      /\ envSteps < MaxEnvSteps
      /\ envSteps' = envSteps + 1
      /\ ordersPosted' = IF hd0.pc = "submit" THEN ordersPosted + 1 ELSE ordersPosted
      /\ store' = IF hd0.pc = "save" THEN store \cup {rec} ELSE store
      /\ IF ShouldRetry(hd0.retryCount)
           THEN Await(h, hd, "delay", hist)
           ELSE IF dbConnected
             THEN Await(h, hd, "saveInCatch", hist)
             ELSE Complete(h, hd, TRUE, "callback", hist)
      /\ UNCHANGED << world, cfgVars, monitorVars, apiKeyCreated >>

CallbackNext ==
  \/ Next
  \/ \E h \in Handlers : ExecutedCallbackThrows(h)

\* Runs in which the onTradeExecuted callback may throw.
CallbackInit ==
  /\ probe = NoProbe
  /\ envSteps = MaxEnvSteps - CallbackEnvSteps
  /\ dryRun \in BOOLEAN
  /\ dbConnected \in BOOLEAN
  /\ config = DefaultConfig
  /\ Constructed

CallbackSpec == CallbackInit /\ [][CallbackNext]_vars

\* A source adds one share to a position it holds.
Drift(s, id) ==
  /\ Quiet
  /\ s \in config.targetAddresses
  /\ id \in DOMAIN world[s]
  /\ world[s][id] \div 2 < MaxDrift
  /\ envSteps < MaxEnvSteps
  /\ envSteps' = envSteps + 1
  /\ world' = [world EXCEPT ![s][id] = @ + 2]
  /\ UNCHANGED << ordersPosted, cfgVars, monitorVars, copyVars,
                  handlers, apiKeyCreated, store, hist >>

DriftNext ==
  \/ Next
  \/ \E s \in Sources, id \in Ids : Drift(s, id)

\* Runs in which the sources also add to their positions share by share.
DriftInit ==
  /\ probe = NoProbe
  /\ envSteps = MaxEnvSteps - DriftEnvSteps
  /\ dryRun \in BOOLEAN
  /\ dbConnected \in BOOLEAN
  /\ config = DefaultConfig
  /\ Constructed

DriftSpec == DriftInit /\ [][DriftNext]_vars

\* Runs with copy trading enabled or disabled.
EnabledInit ==
  /\ probe = NoProbe
  /\ envSteps = MaxEnvSteps - EnabledEnvSteps
  /\ dryRun \in BOOLEAN
  /\ dbConnected \in BOOLEAN
  /\ config \in {[DefaultConfig EXCEPT !.enabled = en] : en \in BOOLEAN}
  /\ Constructed

EnabledSpec == EnabledInit /\ [][Next]_vars

-----------------------------------------------------------------------------
(* Pure functions applied to drawn inputs *)

\* Positions as the data API may report them.
ProbePositions ==
  [id : {1}, quantity : {1, 40, 100}, price : {1, 2}, value : {NoValue, 40, 200}]

\* Quantities of a position in the previous snapshot, and how far the
\* current snapshot's quantity is from it.
LastQuantities == {0, 1, 50, 150, 200, 300}
Deltas == (0 - 4) .. 4

\* Values of the position in the current snapshot (its price moved); the
\* previous snapshot valued it as PositionOf does.
CurrentValues == {197, 200, 202, 203}

\* Size settings under which more than one check of executeBuy can fail for
\* the same position (a minimum above the maximum included).
BuyProbeConfigs ==
  {[DefaultConfig EXCEPT !.positionSizeMultiplier = mu,
                         !.minTradeSize = lo,
                         !.maxTradeSize = hi,
                         !.maxPositionSize = mp] :
     mu \in Multipliers, lo \in {MinTradeSize, 60},
     hi \in {MaxTradeSize, 90, 30}, mp \in {MaxPositionSize, 90, 30}}

\* What a source may hold when its positions are requested.
ProbeHeld == {<< >>, 1 :> 0, 1 :> 1, (1 :> 0) @@ (2 :> 0)}

ProbeInputs ==
  {[kind |-> "sell", cfg |-> c, dry |-> d, pos |-> p,
    lastQuantity |-> p.quantity, lastValue |-> p.value,
    held |-> << >>, answer |-> "ok", out |-> "none"] :
     c \in ExecConfigs, d \in BOOLEAN, p \in ProbePositions}
  \cup
  {i \in {[kind |-> "detect", cfg |-> DefaultConfig, dry |-> FALSE,
            pos |-> [PositionOf(1) EXCEPT !.quantity = q + dl, !.value = v],
            lastQuantity |-> q, lastValue |-> PositionOf(1).value,
            held |-> << >>, answer |-> "ok", out |-> "none"] :
             q \in LastQuantities, dl \in Deltas, v \in CurrentValues} :
     i.pos.quantity >= 0}
  \cup
  {[kind |-> "buy", cfg |-> c, dry |-> d, pos |-> p,
    lastQuantity |-> p.quantity, lastValue |-> p.value,
    held |-> << >>, answer |-> "ok", out |-> "none"] :
     c \in BuyProbeConfigs, d \in BOOLEAN, p \in ProbePositions}
  \cup
  {[kind |-> "fetch", cfg |-> DefaultConfig, dry |-> FALSE,
    pos |-> PositionOf(1), lastQuantity |-> PositionOf(1).quantity,
    lastValue |-> PositionOf(1).value,
    held |-> w, answer |-> a, out |-> "none"] :
     w \in ProbeHeld, a \in FetchAnswers}

\* A status holding the one position pos; totalValue is calculateTotalValue
\* of it.
ProbeStatus(pos) ==
  LET positions == [id \in {pos.id} |-> pos]
  IN  [user |-> "A", openPositions |-> positions,
       totalValue |-> SumValues(positions)]

progVars == << envVars, dryRun, dbConnected, config, monitorVars, copyVars,
               handlers, apiKeyCreated, store, hist >>

ProbeInit ==
  /\ probe \in ProbeInputs
  /\ envSteps = 0
  /\ dryRun = FALSE
  /\ dbConnected = FALSE
  /\ config = DefaultConfig
  /\ Constructed

\* detectChanges(current, last) for two snapshots of one position.
ProbeDetectChanges ==
  /\ probe.kind = "detect"
  /\ probe.out = "none"
  /\ probe' = [probe EXCEPT !.out =
       IF DetectChanges(ProbeStatus(probe.pos),
            ProbeStatus([probe.pos EXCEPT !.quantity = probe.lastQuantity,
                                          !.value = probe.lastValue]))
         THEN "changed" ELSE "unchanged"]
  /\ UNCHANGED progVars

\* executeSell(position) of an executor configured with cfg and dry.
ProbeExecuteSell ==
  /\ probe.kind = "sell"
  /\ probe.out = "none"
  /\ probe' = [probe EXCEPT !.out = SellOutcome(probe.cfg, probe.dry, probe.pos)]
  /\ UNCHANGED progVars

\* getUserPositions(address) of a source holding probe.held: 'rejected', or
\* 'empty' for a snapshot of no position and total value 0, or 'positions'.
ProbeGetUserPositions ==
  /\ probe.kind = "fetch"
  /\ probe.out = "none"
  /\ probe' = [probe EXCEPT !.out =
       LET res == GetUserPositions("A", probe.held, probe.answer)
       IN  IF ~res.fulfilled THEN "rejected"
           ELSE IF res.value.openPositions = NoPositions /\ res.value.totalValue = 0
             THEN "empty"
           ELSE "positions"]
  /\ UNCHANGED progVars

\* executeBuy(position) of an executor configured with cfg and dry, no
\* database connected.
ProbeExecuteBuy ==
  /\ probe.kind = "buy"
  /\ probe.out = "none"
  /\ probe' = [probe EXCEPT !.out = BuyOutcome(probe.cfg, probe.dry, probe.pos)]
  /\ UNCHANGED progVars

ProbeNext ==
  \/ ProbeDetectChanges
  \/ ProbeExecuteSell
  \/ ProbeGetUserPositions
  \/ ProbeExecuteBuy

ProbeSpec == ProbeInit /\ [][ProbeNext]_vars

-----------------------------------------------------------------------------
(* Properties *)

Active(h) == handlers[h].pc # "idle"

\* C1 (no double-open).  For every source and position identifier, at most
\* one executeBuy has returned success, as long as no executeSell for that
\* identifier has succeeded in between (so the second success is an Open of a
\* position the program has already opened and not closed).
C1_NoDoubleOpen ==
  \A s \in Sources, id \in Ids :
    hist.closeSuccess[s][id] = 0 => hist.openSuccess[s][id] <= 1

\* C2 (atomic check-and-insert).  Two handleStatusUpdate invocations of the
\* same source that are alive at once never both hold the same identifier in
\* their list of new positions: at most one of them passed the in-flight
\* check for it.
C2_AtomicCheckAndInsert ==
  \A h1, h2 \in Handlers :
    (h1 # h2 /\ Active(h1) /\ Active(h2)
       /\ handlers[h1].addr = handlers[h2].addr)
    => \A i \in 1 .. Len(handlers[h1].news), j \in 1 .. Len(handlers[h2].news) :
         handlers[h1].news[i] # handlers[h2].news[j]

\* C3 (at most one successful Close).  For every source and identifier that
\* was opened at most once, at most one executeSell has returned success.
C3_AtMostOneClose ==
  \A s \in Sources, id \in Ids :
    hist.openSuccess[s][id] <= 1 => hist.closeSuccess[s][id] <= 1


\* C4 (close requires prior open).  executeSell is called for an identifier
\* of a source only if that identifier has been in the source's in-flight
\* set: a position that vanishes without ever having been in flight causes
\* no executeSell call.
C4_CloseRequiresPriorOpen ==
  \A s \in Sources, id \in Ids :
    hist.sellCalls[s][id] > 0 => id \in hist.everInFlight[s]

\* A handler saw an identifier vanish from the source's snapshot that has
\* never been in flight, and no executeSell was called for it.
C4_Witness ==
  \E s \in Sources, id \in Ids :
    /\ id \in hist.droppedClose[s]
    /\ id \notin hist.everInFlight[s]
    /\ hist.sellCalls[s][id] = 0

\* C6 (dedup short-circuit).  A call of either side that began while the
\* connected store held a success record of its key (position, source, side)
\* submits nothing to the execution boundary and returns 'Duplicate trade'.
C6_DedupShortCircuit ==
  /\ \A h \in Handlers :
       (Active(h) /\ handlers[h].dupAtEntry) => handlers[h].subs = 0
  /\ \A r \in hist.results :
       r.dupAtEntry => (r.subs = 0 /\ r.error = "Duplicate trade")

\* C7 (retry bound).  With dry run off, a call never submits more than
\* maxRetryAttempts + 1 orders; as long as the boundary has accepted no
\* order, every call that reached the boundary and has returned made exactly
\* maxRetryAttempts + 1 submissions and returned Failed (retries exhausted).
C7_RetryBound ==
  /\ \A h \in Handlers : handlers[h].subs <= MaxRetryAttempts + 1
  /\ \A r \in hist.results :
       /\ r.subs <= MaxRetryAttempts + 1
       /\ (ordersPosted = 0 /\ r.subs > 0) =>
            /\ ~r.success
            /\ r.error = "exhausted"
            /\ r.subs = MaxRetryAttempts + 1
            /\ r.retryCount = MaxRetryAttempts

\* An executeBuy has returned after the boundary refused every one of its
\* submissions.
C7_Witness ==
  /\ ordersPosted = 0
  /\ ~dryRun
  /\ \E r \in hist.results : r.side = "buy" /\ r.error = "exhausted"

\* C8 (fetch failure keeps the snapshot).  A cycle whose fetch failed leaves
\* the source's stored last status as it was (stated for a source that has a
\* last-accepted status).
C8_FetchFailureKeepsSnapshot ==
  [][\A s \in Sources :
       (/\ traderStatuses[s].lastStatus # NoStatus
        /\ hist'.fetchFailed[s] > hist.fetchFailed[s])
         => traderStatuses'[s].lastStatus = traderStatuses[s].lastStatus]_vars

\* C9 (fetch failure is counted and reported).  A cycle whose fetch failed
\* increments the source's errorCount by one and calls onError for it.
C9_FetchFailureCounted ==
  [][\A s \in Sources :
       hist'.fetchFailed[s] > hist.fetchFailed[s]
         => /\ traderStatuses'[s].errorCount = traderStatuses[s].errorCount + 1
            /\ hist'.onErrorCalls[s] = hist.onErrorCalls[s] + 1]_vars

\* C10 (stop is race-free).  Once stop() has been called and the monitor is
\* not monitoring, no timer begins a new updateStatus cycle.
C10_StopRaceFree ==
  [][(stops > 0 /\ ~isMonitoring)
       => \A s \in Sources : timerPolls'[s] <= timerPolls[s]]_vars


\* The monitor polls s, the program holds id for s (it is in flight) and the
\* source does not hold it any more.
Stranded(s, id) ==
  /\ isMonitoring
  /\ activeTimers[s] > 0
  /\ id \in executedPositions[s]
  /\ id \notin DOMAIN world[s]

\* A handler of s is at, or in, the executeSell call for id.
Closing(s, id) ==
  \E h \in Handlers :
    /\ Active(h)
    /\ handlers[h].addr = s
    /\ SideOf(handlers[h]) = "sell"
    /\ HeadOf(handlers[h]) = id

\* C5 (no missed close).  Whenever an identifier is in flight for a polled
\* source that no longer holds it, eventually a Close for it is attempted or
\* the situation has ended (the identifier left the in-flight set, or the
\* source holds the position again): it never stays in flight forever
\* without a further Close attempt.
C5_NoMissedClose ==
  \A s \in Sources, id \in Ids :
    [](Stranded(s, id) => <>(~Stranded(s, id) \/ Closing(s, id)))

\* C11 (source isolation).  While the monitor is running, a source whose own
\* initial cycle has completed has its recurring timer armed, whatever fetch
\* of another source is still awaited: the poll cycles of one source never
\* wait for a fetch of another.
C11_SourceIsolation ==
  \A k \in 1 .. MaxStarts :
    \A s \in config.targetAddresses, t \in config.targetAddresses :
      (/\ isMonitoring
       /\ starts[k].pc = "polling"
       /\ s # t
       /\ s \notin starts[k].pending
       /\ t \in starts[k].pending)
      => activeTimers[s] > 0

\* C12 (in-flight set definition).  A source's in-flight set is exactly the
\* set of identifiers whose last successful call was an Open: an identifier
\* enters only when an executeBuy returns success, leaves only when an
\* executeSell returns success, and a Failed or skipped call changes nothing.
C12_InFlightSetDefinition ==
  \A s \in Sources :
    executedPositions[s] = {id \in Ids : hist.lastSuccess[s][id] = "buy"}

\* An executeBuy returned Failed for an identifier that is not in flight,
\* while another identifier of the same source is in flight.
C12_Witness ==
  \E r \in hist.results :
    /\ r.side = "buy"
    /\ ~r.success
    /\ r.id \notin executedPositions[r.addr]
    /\ executedPositions[r.addr] # {}

\* C13 (dry run).  In a dry run nothing is sent to the execution boundary:
\* no createOrDeriveApiKey, no createAndPostOrder.  Every executeSell call,
\* and every executeBuy call that was not skipped as a duplicate and whose
\* sizes pass the validation, returns success carrying the source quantity
\* times positionSizeMultiplier and the position's price (both as rendered
\* by toFixed(4)).
C13_DryRun ==
  dryRun =>
    /\ ordersPosted = 0
    /\ ~apiKeyCreated
    /\ \A k \in 1 .. MaxStarts : starts[k].pc # "init"
    /\ \A h \in Handlers :
         handlers[h].subs = 0 /\ handlers[h].pc \notin {"submit", "delay"}
    /\ \A r \in hist.results :
         /\ r.subs = 0
         /\ (\/ r.side = "sell"
             \/ /\ r.error # "Duplicate trade"
                /\ ValidateBuy(r.position) = "ok")
            => /\ r.success
               /\ 100 * r.executedQuantity
                    = 10000 * r.position.quantity * config.positionSizeMultiplier
               /\ r.executedPrice = 10000 * r.position.price

\* A dry run with a multiplier other than 1.0 in which an executeBuy and an
\* executeSell have returned success.
C13_Witness ==
  /\ dryRun
  /\ config.positionSizeMultiplier # 100
  /\ \E r \in hist.results : r.side = "buy" /\ r.success
  /\ \E r \in hist.results : r.side = "sell" /\ r.success

ValidationReasons == {"belowMinimum", "aboveMaximum", "positionLimit"}

\* C14 (validation failure is terminal).  An executeBuy call that is not
\* skipped as a duplicate and whose position fails a size check (notional
\* below minTradeSize, notional above maxTradeSize, scaled position value
\* above maxPositionSize) returns Failed with that check's reason, having
\* submitted nothing to the boundary and without any retry.
C14_ValidationTerminal ==
  /\ \A h \in Handlers :
       (/\ Active(h)
        /\ SideOf(handlers[h]) = "buy"
        /\ ValidateBuy(HeadPosition(handlers[h])) # "ok")
       => /\ handlers[h].pc \in {"entry", "dupQuery"}
          /\ handlers[h].subs = 0
          /\ handlers[h].retryCount = 0
  /\ \A r \in hist.results :
       (/\ r.side = "buy"
        /\ r.error # "Duplicate trade"
        /\ ValidateBuy(r.position) # "ok")
       => /\ ~r.success
          /\ r.error = ValidateBuy(r.position)
          /\ r.error \in ValidationReasons
          /\ r.subs = 0
          /\ r.retryCount = 0

\* With dry run off and maxTradeSize below the notional, an executeBuy has
\* returned Failed for exceeding the maximum, and no order was ever accepted.
C14_Witness ==
  /\ ~dryRun
  /\ ordersPosted = 0
  /\ \E r \in hist.results : r.side = "buy" /\ r.error = "aboveMaximum"

\* C15 (closes are not subject to the size limits).  Whatever minTradeSize,
\* maxTradeSize and maxPositionSize are configured, executeSell goes on to
\* the dry-run success or to the submission at the boundary.
C15_CloseNotLimited ==
  (probe.kind = "sell" /\ probe.out # "none")
    => probe.out = (IF probe.dry THEN "success" ELSE "submit")

\* An executeSell went to the boundary for a position that executeBuy would
\* refuse under the same settings.
C15_Witness ==
  /\ probe.kind = "sell"
  /\ probe.out = "submit"
  /\ ValidateBuyWith(probe.cfg, probe.pos) = "aboveMaximum"

C16_EveryResultPersisted ==
  dbConnected =>
    \A r \in hist.results :
      ~r.saveFailed =>
        \E rec \in store :
          /\ rec.positionId = r.id
          /\ rec.traderAddress = r.addr
          /\ rec.success = r.success

\* C17 (a persistence failure does not change the result).  Whenever the
\* save of a call ends, whether trade.save() answered or threw, the call
\* returns success and the in-flight set is updated for that success.
C17_PersistenceFailureSwallowed ==
  [][\A h \in Handlers :
       (handlers[h].pc = "save" /\ handlers'[h].pc # "save")
       => LET hd == handlers[h]
              s  == hd.addr
          IN  /\ executedPositions'[s]
                   = InFlightAfter(executedPositions[s], SideOf(hd), HeadOf(hd), TRUE)
              /\ stats'.totalTradesExecuted = stats.totalTradesExecuted + 1
              /\ stats'.totalTradesFailed = stats.totalTradesFailed
              /\ \E r \in hist'.results :
                    /\ r.id = HeadOf(hd) /\ r.addr = s /\ r.side = SideOf(hd)
                    /\ r.success
                    /\ r.subs = hd.subs]_vars

\* An executeBuy whose trade.save() threw has returned success and its
\* identifier is in flight, with no record in the store.
C17_Witness ==
  \E r \in hist.results :
    /\ r.saveFailed
    /\ r.side = "buy"
    /\ r.success
    /\ r.id \in executedPositions[r.addr]
    /\ store = {}

\* C18 (the store is optional).  Without a connected store nothing is asked
\* of it or written to it.  An executeBuy call that ran without a connected
\* store, or whose duplicate query threw, is never skipped as a duplicate
\* and never fails because of the store: it fails only for a size check or
\* for exhausted retries, and if its sizes are valid it returns the dry-run
\* success or reaches the boundary.
C18_StoreOptional ==
  /\ ~dbConnected =>
       /\ store = {}
       /\ \A h \in Handlers : handlers[h].pc \notin {"dupQuery", "save"}
  /\ \A r \in hist.results :
       (r.side = "buy" /\ (~dbConnected \/ r.dupQueryFailed))
       => /\ r.error \in {"none", "exhausted"} \cup ValidationReasons
          /\ r.error \in ValidationReasons
               <=> ValidateBuy(r.position) # "ok"
          /\ ValidateBuy(r.position) = "ok"
               => IF dryRun THEN r.success ELSE r.subs >= 1

\* With the store connected and dry run off, an executeBuy whose duplicate
\* query threw went on to the boundary and returned success.
C18_Witness ==
  /\ dbConnected
  /\ ~dryRun
  /\ \E r \in hist.results :
       r.side = "buy" /\ r.dupQueryFailed /\ r.success /\ r.subs = 1

\* C19 (non-retryable rejections fail at once).  A call that has caught a
\* rejection of a kind the boundary reports as final (such as insufficient
\* balance) has ended: it neither waits for a retry nor submits again.
C19_NonRetryableFailsAtOnce ==
  \A h \in Handlers :
    handlers[h].nonRetryable
      => handlers[h].pc \notin {"delay", "entry", "dupQuery", "submit", "save"}

\* C21 (aggregate value drift is silent).  When the two snapshots hold the
\* same identifiers and no quantity differs by more than the threshold,
\* detectChanges reports no change, whatever the total values are, so that
\* updateStatus makes no onUpdate call in that cycle.
C21_ValueDriftSilent ==
  (probe.kind = "detect" /\ probe.out # "none")
    => LET diff == Abs(probe.pos.quantity - probe.lastQuantity)
       IN  (diff <= 1 \/ 100 * diff <= probe.lastQuantity)
             => probe.out = "unchanged"

\* C22 (first observation).  In the cycle that stores the first snapshot of
\* a source and delivers it (the user's callback does not throw), a handler
\* starts with exactly the snapshot's n positions to open and none to close
\* (no handler starts when n = 0); and a handler takes a position off its
\* list of positions to open only when the executeBuy call for it has
\* returned a result, one position at a time.
C22_FirstObservation ==
  [][/\ \A s \in Sources :
          (/\ traderStatuses[s].lastStatus = NoStatus
           /\ traderStatuses'[s].lastStatus # NoStatus
           /\ hist'.onErrorCalls[s] = hist.onErrorCalls[s])
          => LET ids == DOMAIN traderStatuses'[s].lastStatus.openPositions
             IN  IF ids = {} THEN handlers' = handlers
                 ELSE \E h \in Handlers :
                        /\ handlers[h].pc = "idle"
                        /\ handlers'[h].pc = "entry"
                        /\ handlers'[h].addr = s
                        /\ handlers'[h].news = SetToSeq(ids)
                        /\ handlers'[h].closed = << >>
                        /\ \A g \in Handlers \ {h} : handlers'[g] = handlers[g]
     /\ \A h \in Handlers :
          (Active(h) /\ handlers'[h].news # handlers[h].news)
          => /\ handlers'[h].news = Tail(handlers[h].news)
             /\ handlers'[h].closed = handlers[h].closed
             /\ \E r \in hist'.results :
                  /\ r.side = "buy"
                  /\ r.id = Head(handlers[h].news)
                  /\ r.addr = handlers[h].addr]_vars

\* The first snapshot of A held two positions: the handler it started is
\* about to call executeBuy for the first of them, while the initial cycle
\* of the other address is still awaited (no timer is armed yet).
C22_Witness ==
  \E h \in Handlers :
    /\ handlers[h].pc = "entry"
    /\ handlers[h].addr = "A"
    /\ Len(handlers[h].news) = 2
    /\ handlers[h].closed = << >>
    /\ \E k \in 1 .. MaxStarts : starts[k].pc = "polling"

\* C23 (dry run without a store keeps no memory).  In a dry run with no
\* database, any two executeBuy results for the same position of the same
\* source (a position the size checks accept) are both successes with the
\* same executed quantity and the same executed price, and neither call
\* submitted an order.
C23_DryRunNoMemory ==
  (dryRun /\ ~dbConnected) =>
    \A r1, r2 \in hist.results :
      (/\ r1.side = "buy" /\ r2.side = "buy"
       /\ r1.addr = r2.addr
       /\ r1.position = r2.position
       /\ ValidateBuy(r1.position) = "ok")
      => /\ r1.success /\ r2.success
         /\ r1.subs = 0 /\ r2.subs = 0
         /\ r1.executedQuantity = r2.executedQuantity
         /\ r1.executedPrice = r2.executedPrice

\* In a dry run with no database executeBuy has returned a success twice for
\* the same position of a source.
C23_Witness ==
  /\ dryRun /\ ~dbConnected
  /\ \E s \in Sources, id \in Ids :
       /\ hist.openSuccess[s][id] = 2
       /\ \A r \in hist.results :
            (r.side = "buy" /\ r.addr = s /\ r.id = id) => r.success

\* C24 (a duplicate skip is not a failure).  A step in which an executeBuy
\* call returns 'Duplicate trade' leaves the failed-trades counter as it was.
C24_DuplicateSkipNotFailure ==
  [][(\E r \in hist'.results \ hist.results : r.error = "Duplicate trade")
       => stats'.totalTradesFailed = stats.totalTradesFailed]_vars

C26_ActionIsolation ==
  [][\A h \in Handlers :
       (/\ Active(h)
        /\ handlers'[h] # handlers[h]
        /\ stats'.totalTradesFailed > stats.totalTradesFailed)
       => LET hd == handlers[h]
          IN  /\ IF Len(hd.news) + Len(hd.closed) > 1
                   THEN /\ handlers'[h].pc = "entry"
                        /\ handlers'[h].addr = hd.addr
                        /\ handlers'[h].news \o handlers'[h].closed
                             = Tail(hd.news \o hd.closed)
                   ELSE handlers'[h] = IdleHandler
              /\ \A g \in Handlers \ {h} : handlers'[g] = handlers[g]
              /\ \A s \in Sources \ {hd.addr} :
                   /\ executedPositions'[s] = executedPositions[s]
                   /\ targetPositions'[s] = targetPositions[s]]_vars

\* The handler of the snapshot {1, 2} of A had its executeBuy of position 1
\* fail and is about to call executeBuy for position 2.
C26_Witness ==
  \E h \in Handlers :
    /\ handlers[h].pc = "entry"
    /\ handlers[h].addr = "A"
    /\ DOMAIN handlers[h].current = {1, 2}
    /\ handlers[h].news = << 2 >>
    /\ targetPositions["A"] = NoPositions
    /\ \E r \in hist.results :
         r.side = "buy" /\ r.id = 1 /\ r.addr = "A" /\ ~r.success

\* C27 (resized positions are never traded).  A cycle that replaces the
\* stored snapshot of a source by one with the same identifiers (so that
\* only sizes or values differ) starts no handler with positions to open or
\* to close: it causes no executeBuy and no executeSell call.
C27_ResizeNeverTraded ==
  [][\A s \in Sources :
       LET old == traderStatuses[s].lastStatus
           new == traderStatuses'[s].lastStatus
       IN  (/\ old # NoStatus
            /\ new # old
            /\ DOMAIN new.openPositions = DOMAIN old.openPositions)
           => handlers' = handlers]_vars

\* C28 (when the stored snapshot is replaced).  A cycle replaces the stored
\* snapshot of a source only if its fetch succeeded and change detection,
\* run on the fetched snapshot and the stored one, has reported a change.
C28_ReplacedAfterFetchAndDetection ==
  [][\A s \in Sources :
       LET old == traderStatuses[s].lastStatus
           new == traderStatuses'[s].lastStatus
       IN  new # old
             => /\ hist'.fetchFailed[s] = hist.fetchFailed[s]
                /\ DetectChanges(new, old)]_vars

\* C29 (validation order of an Open).  executeBuy reports 'below minimum'
\* exactly when the notional is below minTradeSize; 'above maximum' exactly
\* when that check passes and the notional exceeds maxTradeSize; the position
\* limit exactly when both pass and the scaled value of the source position
\* exceeds maxPositionSize; and it goes on to trade exactly when all pass.
C29_ValidationOrder ==
  (probe.kind = "buy" /\ probe.out # "none")
    => LET cfg == probe.cfg
           notional100 ==
             probe.pos.quantity * cfg.positionSizeMultiplier * probe.pos.price
           value100 ==
             (IF probe.pos.value = NoValue THEN 0 ELSE probe.pos.value)
               * cfg.positionSizeMultiplier
           below == notional100 < 100 * cfg.minTradeSize
           above == notional100 > 100 * cfg.maxTradeSize
           limit == value100 > 100 * cfg.maxPositionSize
       IN  /\ probe.out = "belowMinimum" <=> below
           /\ probe.out = "aboveMaximum" <=> (~below /\ above)
           /\ probe.out = "positionLimit" <=> (~below /\ ~above /\ limit)
           /\ probe.out \in {"success", "submit"}
                <=> (~below /\ ~above /\ ~limit)

\* A position failing the maximum and the position limit at once was refused
\* for the maximum.
C29_Witness ==
  /\ probe.kind = "buy"
  /\ probe.out = "aboveMaximum"
  /\ probe.pos.value # NoValue
  /\ probe.pos.value * probe.cfg.positionSizeMultiplier
       > 100 * probe.cfg.maxPositionSize

C31_DelayDoesNotBlockPolling ==
  \A h \in Handlers :
    LET s == handlers[h].addr
    IN  (/\ handlers[h].pc = "delay"
         /\ \A g \in Handlers : handlers[g].pc # "entry"
         /\ activeTimers[s] > 0
         /\ FreeHandlers # {})
        => /\ timerPolls[s] < MaxTimerPolls => ENABLED TimerFire(s)
           /\ timerPolls[s] > 0 => ENABLED TimerPollDone(s)

\* A handler of A waits in a retry delay while a timer-begun cycle of A is
\* awaiting the answer of the data API.
C31_Witness ==
  \E h \in Handlers :
    /\ handlers[h].pc = "delay"
    /\ handlers[h].addr = "A"
    /\ \A g \in Handlers : handlers[g].pc # "entry"
    /\ activeTimers["A"] > 0
    /\ timerPolls["A"] > 0
    /\ FreeHandlers # {}

\* C32 (a failed fetch closes nothing).  A cycle whose positions request
\* failed starts no handler with positions to close: it causes no
\* executeSell call.
C32_FetchFailureClosesNothing ==
  [][\A s \in Sources :
       hist'.fetchFailed[s] > hist.fetchFailed[s]
         => \A h \in Handlers :
              handlers'[h] # handlers[h] => handlers'[h].closed = << >>]_vars

\* C33 (no submission after an acceptance).  A call for which
\* createAndPostOrder has returned is never again awaiting the execution
\* boundary: it submits no further order.
C33_NoSubmissionAfterAcceptance ==
  \A h \in Handlers : handlers[h].accepted => handlers[h].pc # "submit"

\* C34 (stored side is the action's side).  Every record a step adds to the
\* durable store carries the side of the action whose save wrote it: buy for
\* an Open, sell for a Close.
C34_StoredSideIsActionSide ==
  [][\A rec \in store' \ store :
       \E h \in Handlers :
         /\ handlers[h].pc \in {"save", "saveInCatch"}
         /\ handlers[h].addr = rec.traderAddress
         /\ HeadOf(handlers[h]) = rec.positionId
         /\ SideOf(handlers[h]) = rec.side]_vars

\* C35 (the store does not decide within one lifetime).  In a dry run that
\* started with an empty store, an executeBuy call for a position the size
\* checks accept, made after the program closed that position, returns a
\* success, with a connected database as with none (C23): the outcome of a
\* re-opened position is the one the run without a store gives.
C35_ReopenedOpenSucceeds ==
  dryRun =>
    \A r \in hist.results :
      (/\ r.side = "buy"
       /\ ValidateBuy(r.position) = "ok"
       /\ hist.closeSuccess[r.addr][r.id] > 0)
      => r.success

\* C36 (a failed Open is not re-attempted).  When no handler of a source is
\* running and the user's callback has never thrown, a position of the last
\* notified snapshot for which an executeBuy call has returned without
\* success is recorded as seen (it is in targetPositions) or in flight: it is
\* not eligible for an Open at the next update that shows it.
C36_FailedOpenNotReattempted ==
  \A s \in Sources :
    (/\ \A h \in Handlers : handlers[h].addr # s
     /\ hist.onErrorCalls[s] = 0
     /\ traderStatuses[s].lastStatus # NoStatus)
    => \A id \in DOMAIN traderStatuses[s].lastStatus.openPositions :
         (\E r \in hist.results :
            r.side = "buy" /\ r.addr = s /\ r.id = id /\ ~r.success)
         => (id \in DOMAIN targetPositions[s] \/ id \in executedPositions[s])

\* C37 (a silent cycle keeps the stored snapshot).  A step changes the last
\* snapshot stored for a source only to a snapshot just fetched in which
\* detectChanges found a change against the stored one; and a cycle whose
\* fetch succeeded and whose snapshot differs significantly from the stored
\* one stores it and notifies it (handleStatusUpdate records it or starts
\* trading on it).  So the reference of the comparison is the last notified
\* snapshot, and moves of one share add up until they pass the threshold.
C37_SilentCycleKeepsSnapshot ==
  [][\A s \in Sources :
       LET last == traderStatuses[s].lastStatus
           now  == StatusOf(s, world[s])
       IN  /\ traderStatuses'[s].lastStatus # last
                => \E answer \in FetchAnswers :
                     /\ traderStatuses'[s].lastStatus = GetStatus(s, answer)
                     /\ DetectChanges(GetStatus(s, answer), last)
           /\ (/\ timerPolls'[s] < timerPolls[s]
               /\ envSteps' = envSteps
               /\ DetectChanges(now, last))
                => /\ traderStatuses'[s].lastStatus = now
                   /\ \/ targetPositions'[s] = now.openPositions
                      \/ handlers' # handlers]_vars

\* The source added two shares to position 1, one at a time; the cycle that
\* fetched the first addition was silent, and the second addition, two
\* shares from the last notified quantity, has been notified.
C37_Witness ==
  /\ 1 \in DOMAIN world["A"]
  /\ world["A"][1] = 2 * MaxDrift
  /\ hist.silentPoll["A"]
  /\ traderStatuses["A"].lastStatus # NoStatus
  /\ 1 \in DOMAIN traderStatuses["A"].lastStatus.openPositions
  /\ traderStatuses["A"].lastStatus.openPositions[1].quantity
       = PositionOf(1).quantity + MaxDrift
  /\ 1 \in DOMAIN targetPositions["A"]
  /\ targetPositions["A"][1].quantity = PositionOf(1).quantity + MaxDrift

\* C38 (timers are single and tracked).  Every source has at most one active
\* poll timer, and an active timer is one a later stop() clears: it is in
\* pollIntervalIds and the monitor is marked as monitoring, so that stop()
\* does not return before clearing.
C38_TimersSingleAndTracked ==
  \A s \in Sources :
    /\ activeTimers[s] <= 1
    /\ activeTimers[s] > 0 => (pollIntervalIds[s] /\ isMonitoring)

\* C39 (disabled copy trading only watches).  With config.enabled false,
\* every status update the monitor stores has been given to the user's
\* onUpdate callback, no executeBuy or executeSell call has been made (no
\* handler is trading, no call has returned, no order was submitted, nothing
\* was saved), and the in-flight set, the tracked source positions and the
\* trade counters are as the constructor left them.
C39_DisabledOnlyWatches ==
  ~config.enabled =>
    /\ \A s \in Sources :
         traderStatuses[s].lastStatus # NoStatus => hist.userUpdates[s]
    /\ \A h \in Handlers : handlers[h] = IdleHandler
    /\ hist.results = {}
    /\ ordersPosted = 0
    /\ store = {}
    /\ executedPositions = [s \in Sources |-> {}]
    /\ targetPositions = [s \in Sources |-> NoPositions]
    /\ stats = [totalTradesExecuted |-> 0, totalTradesFailed |-> 0]

\* Copy trading is disabled, the monitor polls A, and an update showing that
\* A holds a position was given to the user's callback.
C39_Witness ==
  /\ ~config.enabled
  /\ activeTimers["A"] > 0
  /\ hist.userUpdates["A"]
  /\ traderStatuses["A"].lastStatus # NoStatus
  /\ DOMAIN traderStatuses["A"].lastStatus.openPositions # {}

\* C40 (the health surface does not lag).  A step that completes the
\* handling of a successful trade leaves the executed-trades count held by
\* the health monitor equal to the orchestrator's counter.
C40_HealthStatsCurrent ==
  [][stats'.totalTradesExecuted > stats.totalTradesExecuted
       => /\ hist'.copyTradingStats.pushed
          /\ hist'.copyTradingStats.totalTradesExecuted = stats'.totalTradesExecuted]_vars

=============================================================================
